---- MODULE Spec2Model ----
(***************************************************************************)
(* A model of gitlab-copy (gitlab.py, main.py): the paginated fetch of     *)
(* groups and projects, the construction of the namespace forest, the      *)
(* fan-out of per-project git operations over a thread pool, the pipeline  *)
(* of main(), and the replication of the source trees by copy_tree.        *)
(*                                                                         *)
(* The module holds these specifications over one set of variables:        *)
(*   SpecFetch     fetch_groups / fetch_projects, one page request a step  *)
(*   SpecTree      refetch_data's tree building over fetched lists         *)
(*   SpecOrch      one call of mirror_all_projects / upload_all_projects / *)
(*                 relink_references, task by task                         *)
(*   FairSpecOrch  SpecOrch with fair pool threads and exiting commands    *)
(*   SpecExcl      one call of mirror_all_projects with an exception list  *)
(*   SpecWork      SpecOrch over projects that may share a path            *)
(*   SpecUpload    one call of upload_all_projects over projects that may  *)
(*                 hold a remote alias from an earlier call                *)
(*   SpecMain      the phases of main() over a set of repositories         *)
(*   SpecCopy      copy_tree over the trees of the source, one creation     *)
(*                 request a step                                           *)
(* A specification leaves the variables of the others at their idle value. *)
(***************************************************************************)
EXTENDS Integers, Sequences, FiniteSets, TLC

VARIABLES
    \* ---- fetch_groups / fetch_projects ----
    endpoint,     \* "groups" or "projects": the collection being fetched
    server,       \* the ids the server holds, ascending (order_by=id, sort=asc)
    fpc,          \* "request": a page request is due; "returned": the fetch returned
    next_id,      \* the next_id argument of the pending (recursive) call
    fetched,      \* the ids merged so far: the value the outermost call returns
    requests,     \* page requests issued
    bad_status    \* TRUE once a page request was answered with a status other than 200

fetchVars == <<endpoint, server, fpc, next_id, fetched, requests, bad_status>>

VARIABLES
    \* ---- refetch_data and the tree building ----
    srv_groups,   \* the Groups the server holds, ascending by id
    srv_projects, \* the Projects the server holds, ascending by id
    groups,       \* self.groups (in SpecCopy: Groups with a name)
    projects,     \* self.projects (in the orchestrator specifications: Projects
                  \* with name, path and remote)
    trees,        \* self.trees: GroupNodes and root Projects
    err,          \* "none", or the error refetch_data raised
    tpc,          \* "init": refetch_data not called; "done": it returned or raised;
                  \* "permuted": the reordered lists were built as well
    perm_groups,  \* a reordering of self.groups
    perm_projects,\* a reordering of self.projects
    perm_trees,   \* the forest built from the reordered lists
    perm_err      \* the error raised while building it

treeVars == <<srv_groups, srv_projects, groups, projects, trees, err, tpc,
              perm_groups, perm_projects, perm_trees, perm_err>>

VARIABLES
    \* ---- one call of mirror_all_projects / upload_all_projects / relink_references ----
    op,           \* "none", "mirror", "upload" or "relink": the operation called
    username,     \* TRUE when self.username is not empty
    folder,       \* folder[p]: the directory the task of project p looks for exists
    caller,       \* "idle", "dispatching", "waiting", "returned" or "raised"
    next_submit,  \* index into self.projects of the next task to hand to the pool
    task,         \* task[p]: "none", "queued", "begin", "wait1", "wait2",
                  \* "finished", "raised" or "cancelled"
    failure,      \* failure[p]: "none", "no_username", "no_folder", "nonzero_exit"
                  \* or "raised": how the task of p failed
    printed,      \* the projects whose task printed a message about its failure
    first_raised, \* the first task that raised an error (0: none), the one
                  \* asyncio.gather hands to the caller
    exceptions,   \* SRC_REPO_EXCEPTIONS: the names mirror_all_projects is given
    todo,         \* the call's local list "projects", as indices into self.projects
    uuids,        \* the number of uuid.uuid4() calls so far
    remote_added, \* remote_added[p]: the alias given to "git remote add" (Empty:
                  \* the command was not run)
    remote_pushed \* remote_pushed[p]: the alias given to "git push"

orchVars == <<op, username, folder, caller, next_submit, task, failure, printed,
              first_raised, exceptions, todo, uuids, remote_added, remote_pushed>>

VARIABLES
    \* ---- the pipeline of main() over the repositories of the source ----
    mpc,           \* the next step of main(), "done" or "aborted"
    src_username,  \* TRUE when SOURCE_USERNAME is not empty
    dst_username,  \* TRUE when DEST_USERNAME is not empty
    excluded,      \* excluded[r]: the name of r is in SRC_REPO_EXCEPTIONS
    name_is_path,  \* name_is_path[r]: the project's name is also its path
    replicated,    \* replicated[r]: the destination holds a project for r
    workspace,     \* workspace[r]: what temp/<path of r>.git holds: "absent",
                   \* "src_clone" or "dst_clone"
    cloned,        \* cloned[r]: the mirror clone from the source succeeded
    push_ran,      \* push_ran[r]: upload_project ran its commands for r
    pushed,        \* pushed[r]: the push to the destination succeeded
    relink_ran,    \* relink_ran[r]: _relink_project ran its commands for r
    relinked,      \* relinked[r]: the rewrite and the force push succeeded
    own_failed     \* own_failed[r]: an operation on r itself failed

mainVars == <<mpc, src_username, dst_username, excluded, name_is_path, replicated,
              workspace, cloned, push_ran, pushed, relink_ran, relinked, own_failed>>

VARIABLES
    \* ---- copy_tree over the trees of the source (main.py 24-26) ----
    cpc,               \* "walking", "done" (every copy_tree call returned) or
                       \* "raised" (an error left copy_tree)
    src_trees,         \* src_gitlab.trees
    stack,             \* what is left to do, in order: copy_tree calls and
                       \* Project children of the loops of lines 279-286
    creation_requests, \* the POST requests issued, in order
    attempt,           \* attempt[g], for a source Group g whose copy_tree call
                       \* got past line 277: the status of its creation request
                       \* and root_group (Null: None)
    copy_err,          \* "none", or the error that left copy_tree
    raised_at,         \* the source Group in whose loop the error was raised
    returned,          \* what the last create_group / create_project call
                       \* returned: <<>> for None, <<entity>> otherwise
    next_dst_id        \* the id the destination server gives its next entity

copyVars == <<cpc, src_trees, stack, creation_requests, attempt, copy_err,
              raised_at, returned, next_dst_id>>

vars == <<fetchVars, treeVars, orchVars, mainVars, copyVars>>

(***************************************************************************)
(* Bounds of the model.                                                    *)
(***************************************************************************)
MaxItems == 205       \* most items a server holds in SpecFetch
MaxIdStep == 2        \* ids on the server are IdStep, 2*IdStep, ... (IdStep <= MaxIdStep)
MaxGroupId == 2       \* Group ids of SpecTree are in 1..MaxGroupId
MaxProjectId == 2     \* Project ids of SpecTree are in 1..MaxProjectId
NumProjects == 3      \* len(self.projects) in SpecOrch
NumRepos == 2         \* repositories of the source in SpecMain
MaxWorkers == 2       \* threads of the pool in SpecOrch (fewer than projects, as
                      \* min(32, cpus + 4) is against a large project list)
MaxSrcGroups == 2     \* Groups of the source in SpecCopy
MaxSrcProjects == 2   \* Projects of the source in SpecCopy

(***************************************************************************)
(* The idle values a specification gives the variables it does not use.    *)
(***************************************************************************)
FetchIdle ==
    /\ endpoint = "groups"
    /\ server = <<>>
    /\ fpc = "returned"
    /\ next_id = 0
    /\ fetched = <<>>
    /\ requests = 0
    /\ bad_status = FALSE

\* The variables of the tree building but self.projects
treeRest == <<srv_groups, srv_projects, groups, trees, err, tpc,
              perm_groups, perm_projects, perm_trees, perm_err>>

TreeRestIdle ==
    /\ srv_groups = <<>>
    /\ srv_projects = <<>>
    /\ groups = <<>>
    /\ trees = <<>>
    /\ err = "none"
    /\ tpc = "done"
    /\ perm_groups = <<>>
    /\ perm_projects = <<>>
    /\ perm_trees = <<>>
    /\ perm_err = "none"

TreeIdle ==
    /\ srv_groups = <<>>
    /\ srv_projects = <<>>
    /\ groups = <<>>
    /\ projects = <<>>
    /\ trees = <<>>
    /\ err = "none"
    /\ tpc = "done"
    /\ perm_groups = <<>>
    /\ perm_projects = <<>>
    /\ perm_trees = <<>>
    /\ perm_err = "none"

OrchIdle ==
    /\ op = "none"
    /\ username = FALSE
    /\ folder = <<>>
    /\ caller = "returned"
    /\ next_submit = 0
    /\ task = <<>>
    /\ failure = <<>>
    /\ printed = {}
    /\ first_raised = 0
    /\ exceptions = {}
    /\ todo = <<>>
    /\ uuids = 0
    /\ remote_added = <<>>
    /\ remote_pushed = <<>>

CopyIdle ==
    /\ cpc = "done"
    /\ src_trees = <<>>
    /\ stack = <<>>
    /\ creation_requests = <<>>
    /\ attempt = <<>>
    /\ copy_err = "none"
    /\ raised_at = 0
    /\ returned = <<>>
    /\ next_dst_id = 0

MainIdle ==
    /\ mpc = "done"
    /\ src_username = FALSE
    /\ dst_username = FALSE
    /\ excluded = <<>>
    /\ name_is_path = <<>>
    /\ replicated = <<>>
    /\ workspace = <<>>
    /\ cloned = <<>>
    /\ push_ran = <<>>
    /\ pushed = <<>>
    /\ relink_ran = <<>>
    /\ relinked = <<>>
    /\ own_failed = <<>>

(***************************************************************************)
(* fetch_groups / fetch_projects (gitlab.py 158-181, 232-255).             *)
(***************************************************************************)
per_page == 100

Min(a, b) == IF a < b THEN a ELSE b

\* The server's answer to GET ?order_by=id&sort=asc&per_page=n[&id_after=c]:
\* the first n items whose id is greater than the cursor; no cursor is sent
\* when next_id is 0 ("if next_id:"), and the listing starts at the first item.
ServerPage(items, cursor, n) ==
    LET after == SelectSeq(items, LAMBDA id : cursor = 0 \/ id > cursor)
    IN  SubSeq(after, 1, Min(n, Len(after)))

\* "if len(data) > per_page" in place of the test of line 178
MoreWrong(data) == Len(data) > per_page

\* "if len(data) >= per_page": the call recurses for a further page
More(data) == Len(data) >= per_page

\* One invocation of fetch_groups(next_id) up to its recursive call: the page
\* request, the status test, the deserialisation of the page, and the decision
\* to recurse with the id of the page's last item.  A status other than 200
\* makes this invocation return []: every caller up the recursion appends
\* nothing and returns what it had.
FetchPage(status) ==
    /\ fpc = "request"
    /\ requests' = requests + 1
    /\ IF status # 200
         THEN /\ bad_status' = TRUE
              /\ fpc' = "returned"
              /\ UNCHANGED <<fetched, next_id>>
         ELSE LET data == ServerPage(server, next_id, per_page)
              IN  /\ fetched' = fetched \o data
                  /\ bad_status' = bad_status
                  /\ IF More(data)
                       THEN /\ next_id' = data[Len(data)]
                            /\ fpc' = "request"
                       ELSE /\ fpc' = "returned"
                            /\ next_id' = next_id
    /\ UNCHANGED <<endpoint, server>>
    /\ UNCHANGED <<treeVars, orchVars, mainVars, copyVars>>

fetch_groups ==
    /\ endpoint = "groups"
    /\ \E status \in {200, 500} : FetchPage(status)

fetch_projects ==
    /\ endpoint = "projects"
    /\ \E status \in {200, 500} : FetchPage(status)

FetchInit ==
    /\ endpoint \in {"groups", "projects"}
    /\ \E n \in 0..MaxItems, step \in 1..MaxIdStep :
          server = [i \in 1..n |-> i * step]
    /\ fpc = "request"
    /\ next_id = 0
    /\ fetched = <<>>
    /\ requests = 0
    /\ bad_status = FALSE
    /\ TreeIdle /\ OrchIdle /\ MainIdle /\ CopyIdle

FetchNext == fetch_groups \/ fetch_projects

SpecFetch == FetchInit /\ [][FetchNext]_vars

\* ceil(n / per_page)
CeilPages(n) == (n + per_page - 1) \div per_page

\* C1: pagination completeness. When every page request of fetch_groups /
\* fetch_projects succeeds, the fetch returns exactly the N items of the server,
\* each once and in order, after ceil(N/P) page requests, or ceil(N/P)+1 when N is
\* a multiple of P (N = 0 costs one request); and a further page is requested
\* only while every page so far was full.
C1_PaginationComplete ==
    /\ (fpc = "returned" /\ ~bad_status) =>
          /\ fetched = server
          /\ requests = IF Len(server) % per_page = 0
                          THEN CeilPages(Len(server)) + 1
                          ELSE CeilPages(Len(server))
    /\ (fpc = "request" /\ ~bad_status) => Len(fetched) = requests * per_page

\* C1 witness: a server holding exactly two full pages was fetched whole with
\* three successful requests, the last one answered with an empty page
C1_Witness ==
    /\ fpc = "returned" /\ ~bad_status
    /\ Len(server) = 2 * per_page
    /\ requests = 3
    /\ fetched = server

\* C2: a non-success response to a page request is surfaced as a failure: the
\* fetch never returns normally with a result that misses items of the server.
\* (The model's fetch has no failing return: "returned" is the normal return.)
C2_FailureSurfaced ==
    fpc = "returned" => fetched = server

(***************************************************************************)
(* The data model (gitlab.py 21-54) and the tree building (90-118,         *)
(* 257-262).  A Group keeps the two fields the tree building reads, id and *)
(* parent_id; a Project keeps id and namespace.id.  Null is a parent_id or *)
(* namespace id of None or 0 (both are false in "if not x", and neither    *)
(* equals the id of a Group); NoNamespace is a Project whose record had no *)
(* 'namespace' key, so that project.namespace is None.                     *)
(***************************************************************************)
Null == 0
NoNamespace == -1

Group(id, parent_id) == [class |-> "Group", id |-> id, parent_id |-> parent_id]
Project(id, namespace_id) ==
    [class |-> "Project", id |-> id, namespace_id |-> namespace_id]
GroupNode(item, children) ==
    [class |-> "GroupNode", item |-> item, children |-> children]

\* "if not group.parent_id", "if not project.namespace.id"
Falsy(id) == id = Null

\* _construct_trees_roots with "a Group whose parent is not listed is a root too"
_construct_trees_roots_adopting(grps, prjs) ==
    LET IsRoot(g) == Falsy(g.parent_id)
                     \/ ~\E i \in DOMAIN grps : grps[i].id = g.parent_id
    IN  [raises |-> \E i \in DOMAIN prjs : prjs[i].namespace_id = NoNamespace,
         roots |-> [i \in 1..Len(SelectSeq(grps, IsRoot)) |->
                       GroupNode(SelectSeq(grps, IsRoot)[i], <<>>)]
                   \o SelectSeq(prjs, LAMBDA p : Falsy(p.namespace_id)),
         remaining_groups |-> SelectSeq(grps, LAMBDA g : ~IsRoot(g)),
         remaining_projects |-> SelectSeq(prjs, LAMBDA p : ~Falsy(p.namespace_id))]

\* _construct_trees_roots with "a Group that is its own parent is a root too"
_construct_trees_roots_self(grps, prjs) ==
    LET IsRoot(g) == Falsy(g.parent_id) \/ g.parent_id = g.id
    IN  [raises |-> \E i \in DOMAIN prjs : prjs[i].namespace_id = NoNamespace,
         roots |-> [i \in 1..Len(SelectSeq(grps, IsRoot)) |->
                       GroupNode(SelectSeq(grps, IsRoot)[i], <<>>)]
                   \o SelectSeq(prjs, LAMBDA p : Falsy(p.namespace_id)),
         remaining_groups |-> SelectSeq(grps, LAMBDA g : ~IsRoot(g)),
         remaining_projects |-> SelectSeq(prjs, LAMBDA p : ~Falsy(p.namespace_id))]

\* _construct_trees_roots: the roots (GroupNodes of the parentless Groups in list
\* order, then the Projects without namespace id), the remaining Groups and the
\* remaining Projects.  project.namespace.id raises AttributeError when
\* project.namespace is None.
_construct_trees_roots(grps, prjs) ==
    [raises |-> \E i \in DOMAIN prjs : prjs[i].namespace_id = NoNamespace,
     roots |-> [i \in 1..Len(SelectSeq(grps, LAMBDA g : Falsy(g.parent_id))) |->
                   GroupNode(SelectSeq(grps, LAMBDA g : Falsy(g.parent_id))[i], <<>>)]
               \o SelectSeq(prjs, LAMBDA p : Falsy(p.namespace_id)),
     remaining_groups |-> SelectSeq(grps, LAMBDA g : ~Falsy(g.parent_id)),
     remaining_projects |-> SelectSeq(prjs, LAMBDA p : ~Falsy(p.namespace_id))]

\* _find_children with "the first Project of the namespace" in place of "every
\* Project of the namespace"
RECURSIVE _find_children_first(_, _, _)
_find_children_first(root, grps, prjs) ==
    LET group_children == SelectSeq(grps, LAMBDA grp : grp.parent_id = root.item.id)
        nodes == [i \in 1..Len(group_children) |->
                     _find_children_first(GroupNode(group_children[i], <<>>), grps, prjs)]
        mine == SelectSeq(prjs, LAMBDA prj : prj.namespace_id = root.item.id)
    IN  GroupNode(root.item,
                  root.children \o nodes \o SubSeq(mine, 1, Min(1, Len(mine))))

\* _find_children on a GroupNode: the node with its children appended, first a
\* GroupNode for every listed Group whose parent_id is the node's id, each with
\* its own children found first, then the listed Projects whose namespace id is
\* the node's id.
RECURSIVE _find_children(_, _, _)
_find_children(root, grps, prjs) ==
    LET group_children == SelectSeq(grps, LAMBDA grp : grp.parent_id = root.item.id)
        nodes == [i \in 1..Len(group_children) |->
                     _find_children(GroupNode(group_children[i], <<>>), grps, prjs)]
    IN  GroupNode(root.item,
                  root.children \o nodes
                  \o SelectSeq(prjs, LAMBDA prj : prj.namespace_id = root.item.id))

\* _find_children on a root that is a Project raises AttributeError: the Project
\* has no attribute item (read by the first filter when groups is not empty) and
\* no attribute children (read by "root.children +=" otherwise).
FindChildrenRaises(root) == root.class # "GroupNode"

\* The index of the first root on which _find_children raises, or Len + 1
FirstRaising(roots) ==
    IF \E i \in DOMAIN roots : FindChildrenRaises(roots[i])
      THEN CHOOSE i \in DOMAIN roots :
              /\ FindChildrenRaises(roots[i])
              /\ \A j \in 1..(i - 1) : ~FindChildrenRaises(roots[j])
      ELSE Len(roots) + 1

\* refetch_data, lines 260-262: self.trees is assigned the roots, then every root
\* is attached in order; the loop stops at the first root that raises, leaving
\* the roots before it attached.  When _construct_trees_roots raises, self.trees
\* keeps its old value.
BuildForest(old_trees, grps, prjs) ==
    LET c == _construct_trees_roots(grps, prjs)
        k == FirstRaising(c.roots)
    IN  IF c.raises
          THEN [trees |-> old_trees, err |-> "AttributeError"]
          ELSE [trees |-> [i \in DOMAIN c.roots |->
                             IF i < k
                               THEN _find_children(c.roots[i], c.remaining_groups,
                                                   c.remaining_projects)
                               ELSE c.roots[i]],
                err |-> IF k <= Len(c.roots) THEN "AttributeError" ELSE "none"]

\* What a fetch returns: everything the server holds when the page request
\* succeeds (the lists of SpecTree are shorter than a page), [] otherwise.
FetchAll(items, status) == IF status = 200 THEN items ELSE <<>>

\* refetch_data: fetch the Groups, fetch the Projects, build the forest.
refetch_data ==
    /\ tpc = "init"
    /\ \E gstatus \in {200, 500}, pstatus \in {200, 500} :
          LET gs == FetchAll(srv_groups, gstatus)
              ps == FetchAll(srv_projects, pstatus)
              b == BuildForest(trees, gs, ps)
          IN  /\ groups' = gs
              /\ projects' = ps
              /\ trees' = b.trees
              /\ err' = b.err
    /\ tpc' = "done"
    /\ UNCHANGED <<srv_groups, srv_projects, perm_groups, perm_projects,
                   perm_trees, perm_err>>
    /\ UNCHANGED <<fetchVars, orchVars, mainVars, copyVars>>

Perms(n) == {f \in [1..n -> 1..n] : \A i, j \in 1..n : f[i] = f[j] => i = j}

\* The tree building applied to a reordering of the fetched lists.
build_permuted ==
    /\ tpc = "done"
    /\ \E pg \in Perms(Len(groups)), pp \in Perms(Len(projects)) :
          LET gs == [i \in 1..Len(groups) |-> groups[pg[i]]]
              ps == [i \in 1..Len(projects) |-> projects[pp[i]]]
              b == BuildForest(<<>>, gs, ps)
          IN  /\ perm_groups' = gs
              /\ perm_projects' = ps
              /\ perm_trees' = b.trees
              /\ perm_err' = b.err
    /\ tpc' = "permuted"
    /\ UNCHANGED <<srv_groups, srv_projects, groups, projects, trees, err>>
    /\ UNCHANGED <<fetchVars, orchVars, mainVars, copyVars>>

\* The ids of a set within 1..max, ascending
Ascending(ids, max) == SelectSeq([i \in 1..max |-> i], LAMBDA i : i \in ids)

\* The server's lists: any Groups with ids in 1..MaxGroupId and any parent_id,
\* any Projects with ids in 1..MaxProjectId and any namespace, ascending by id.
TreeInit ==
    /\ \E gids \in SUBSET (1..MaxGroupId), pids \in SUBSET (1..MaxProjectId) :
          \E gp \in [gids -> 0..MaxGroupId],
             pn \in [pids -> {NoNamespace} \cup 0..MaxGroupId] :
             /\ srv_groups = [k \in 1..Cardinality(gids) |->
                                 LET i == Ascending(gids, MaxGroupId)[k]
                                 IN  Group(i, gp[i])]
             /\ srv_projects = [k \in 1..Cardinality(pids) |->
                                   LET i == Ascending(pids, MaxProjectId)[k]
                                   IN  Project(i, pn[i])]
    /\ groups = <<>>
    /\ projects = <<>>
    /\ trees = <<>>
    /\ err = "none"
    /\ tpc = "init"
    /\ perm_groups = <<>>
    /\ perm_projects = <<>>
    /\ perm_trees = <<>>
    /\ perm_err = "none"
    /\ FetchIdle /\ OrchIdle /\ MainIdle /\ CopyIdle

TreeNext == refetch_data \/ build_permuted

SpecTree == TreeInit /\ [][TreeNext]_vars

(***************************************************************************)
(* What a forest holds.                                                    *)
(***************************************************************************)
\* The ids of the Groups of all GroupNodes of a list of entries, one per node
RECURSIVE ForestGroupIds(_)
ForestGroupIds(entries) ==
    IF entries = <<>> THEN <<>>
    ELSE LET e == Head(entries)
         IN  (IF e.class = "GroupNode"
                THEN <<e.item.id>> \o ForestGroupIds(e.children)
                ELSE <<>>)
             \o ForestGroupIds(Tail(entries))

\* The ids of all Projects of a list of entries, one per occurrence
RECURSIVE ForestProjectIds(_)
ForestProjectIds(entries) ==
    IF entries = <<>> THEN <<>>
    ELSE LET e == Head(entries)
         IN  (IF e.class = "GroupNode"
                THEN ForestProjectIds(e.children)
                ELSE <<e.id>>)
             \o ForestProjectIds(Tail(entries))

EntryKey(e) ==
    IF e.class = "GroupNode" THEN <<"Group", e.item.id>> ELSE <<"Project", e.id>>

\* The parent/child relationships of a list of entries: <<parent Group id, child>>
RECURSIVE ForestEdges(_)
ForestEdges(entries) ==
    IF entries = <<>> THEN {}
    ELSE LET e == Head(entries)
         IN  (IF e.class = "GroupNode"
                THEN {<<e.item.id, EntryKey(e.children[i])>> : i \in DOMAIN e.children}
                     \cup ForestEdges(e.children)
                ELSE {})
             \cup ForestEdges(Tail(entries))

RootKeys(forest) == [i \in DOMAIN forest |-> EntryKey(forest[i])]
KeysOf(class, seq) == [i \in DOMAIN seq |-> <<class, seq[i].id>>]
RootKeySet(forest) == {EntryKey(forest[i]) : i \in DOMAIN forest}

Count(seq, x) == Cardinality({i \in DOMAIN seq : seq[i] = x})

UniqueIds(seq) == \A i, j \in DOMAIN seq : seq[i].id = seq[j].id => i = j

HasGroup(grps, id) == \E i \in DOMAIN grps : grps[i].id = id

\* Every non-null parent / namespace id is the id of a fetched Group
ConsistentRefs(grps, prjs) ==
    /\ \A i \in DOMAIN grps :
          ~Falsy(grps[i].parent_id) => HasGroup(grps, grps[i].parent_id)
    /\ \A i \in DOMAIN prjs :
          prjs[i].namespace_id \notin {Null, NoNamespace}
             => HasGroup(grps, prjs[i].namespace_id)

ParentOf(grps, id) == (CHOOSE i \in DOMAIN grps : grps[i].id = id)

\* The chain of parent ids from id ends at a parentless Group within n steps
RECURSIVE ReachesRoot(_, _, _)
ReachesRoot(grps, id, n) ==
    \/ Falsy(id)
    \/ /\ n > 0
       /\ HasGroup(grps, id)
       /\ ReachesRoot(grps, grps[ParentOf(grps, id)].parent_id, n - 1)

\* The parent ids form a forest: no Group is its own ancestor
Acyclic(grps) == \A i \in DOMAIN grps : ReachesRoot(grps, grps[i].id, Len(grps))

IsRootProject(p) == p.namespace_id \in {Null, NoNamespace}

\* C3: forest completeness and uniqueness. For fetched lists with unique ids and
\* consistent parent references (the Groups being a forest, as the data model
\* has it), refetch_data completes and every fetched Group is the item of exactly
\* one GroupNode of the forest and every fetched Project appears in it exactly
\* once, as a child or as a root.
C3_ForestCompleteUnique ==
    (/\ tpc = "done"
     /\ groups = srv_groups /\ projects = srv_projects
     /\ UniqueIds(groups) /\ UniqueIds(projects)
     /\ ConsistentRefs(groups, projects)
     /\ Acyclic(groups))
    => /\ err = "none"
       /\ \A i \in DOMAIN groups : Count(ForestGroupIds(trees), groups[i].id) = 1
       /\ \A i \in DOMAIN projects :
             Count(ForestProjectIds(trees), projects[i].id) = 1

\* C4: root Projects are handled by the fetch cycle. When a fetched Project has
\* no namespace id, refetch_data completes without error and the roots are the
\* parentless Groups, in list order, followed by those Projects; for Groups
\* [1 (no parent), 2 (parent 1)] and Projects [1 (namespace 2), 2 (none)] the
\* forest is [GroupNode(1, [GroupNode(2, [Project 1])]), Project 2].
C4_RootProjectsHandled ==
    (/\ tpc = "done"
     /\ groups = srv_groups /\ projects = srv_projects
     /\ \E i \in DOMAIN projects : IsRootProject(projects[i]))
    => /\ err = "none"
       /\ RootKeys(trees) =
             KeysOf("Group", SelectSeq(groups, LAMBDA g : Falsy(g.parent_id)))
             \o KeysOf("Project", SelectSeq(projects, IsRootProject))
       /\ (/\ groups = <<Group(1, Null), Group(2, 1)>>
           /\ projects = <<Project(1, 2), Project(2, Null)>>)
          => trees = <<GroupNode(Group(1, Null),
                                 <<GroupNode(Group(2, 1), <<Project(1, 2)>>)>>),
                       Project(2, Null)>>

\* C5: order independence of the tree building. The forest built from any
\* reordering of the Group list and of the Project list has the same
\* parent/child relationships and the same roots as the forest built from the
\* lists as fetched, and raises exactly when that one does.
C5_OrderIndependent ==
    tpc = "permuted" =>
       /\ ForestEdges(perm_trees) = ForestEdges(trees)
       /\ RootKeySet(perm_trees) = RootKeySet(trees)
       /\ perm_err = err

\* C5 witness: a child Group listed before its parent and two sibling Projects
\* in reverse order, attached below a nested GroupNode
C5_Witness ==
    /\ tpc = "permuted"
    /\ err = "none"
    /\ Len(groups) = 2 /\ perm_groups = <<groups[2], groups[1]>>
    /\ groups[2].parent_id = groups[1].id
    /\ Len(projects) = 2 /\ perm_projects = <<projects[2], projects[1]>>
    /\ projects[1].namespace_id = groups[2].id
    /\ projects[2].namespace_id = groups[2].id
    /\ Cardinality(ForestEdges(perm_trees)) = 3

\* id is the id of a listed Group that is reachable from a root
Attached(grps, id) == HasGroup(grps, id) /\ ReachesRoot(grps, id, Len(grps))

\* An orphan: its non-null parent / namespace id is the id of no Group reachable
\* from a root
OrphanGroup(grps, g) == ~Falsy(g.parent_id) /\ ~Attached(grps, g.parent_id)
OrphanProject(grps, p) ==
    p.namespace_id \notin {Null, NoNamespace} /\ ~Attached(grps, p.namespace_id)

\* C18: orphans are dropped silently. After refetch_data no orphan Group is the
\* item of a GroupNode of the forest (root or child) and no orphan Project is in
\* the forest, and the forest and the error are exactly those the tree building
\* gives for the lists without the orphans: it completes whenever it completes
\* without them, and every other entity is attached as if they were absent.
C18_OrphansDropped ==
    tpc = "done" =>
       LET gs == SelectSeq(groups, LAMBDA g : ~OrphanGroup(groups, g))
           ps == SelectSeq(projects, LAMBDA p : ~OrphanProject(groups, p))
           b == BuildForest(<<>>, gs, ps)
       IN  /\ \A i \in DOMAIN groups :
                 OrphanGroup(groups, groups[i])
                    => Count(ForestGroupIds(trees), groups[i].id) = 0
           /\ \A i \in DOMAIN projects :
                 OrphanProject(groups, projects[i])
                    => Count(ForestProjectIds(trees), projects[i].id) = 0
           /\ trees = b.trees
           /\ err = b.err

\* C18 witness: an orphan Group and an orphan Project next to a root with a
\* Project attached, and the tree building completed
C18_Witness ==
    /\ tpc = "done"
    /\ err = "none"
    /\ \E i \in DOMAIN groups : OrphanGroup(groups, groups[i])
    /\ \E i \in DOMAIN projects : OrphanProject(groups, projects[i])
    /\ \E i \in DOMAIN trees : trees[i].class = "GroupNode" /\ trees[i].children # <<>>

\* The chain of parent ids from cur comes back to start within n steps
RECURSIVE ReturnsTo(_, _, _, _)
ReturnsTo(grps, start, cur, n) ==
    /\ n > 0
    /\ HasGroup(grps, cur)
    /\ LET parent == grps[ParentOf(grps, cur)].parent_id
       IN  parent = start \/ ReturnsTo(grps, start, parent, n - 1)

\* The Group is its own ancestor (its own parent included)
OnCycle(grps, g) == ReturnsTo(grps, g.id, g.id, Len(grps))

\* C20: the tree building terminates on inconsistent input. Whatever the parent
\* ids of the fetched Groups (unique ids; cycles and self-parented Groups
\* included), refetch_data has an outcome, the forest it leaves holds every
\* Group at most once, and no Group that is on a cycle is in the forest.
C20_TerminatesOnCycles ==
    /\ tpc = "init" => ENABLED refetch_data
    /\ tpc = "done" =>
          \A i \in DOMAIN groups :
             /\ Count(ForestGroupIds(trees), groups[i].id) <= 1
             /\ OnCycle(groups, groups[i])
                   => Count(ForestGroupIds(trees), groups[i].id) = 0

\* C20 witness: a self-parented Group holding a Project, next to a root Group
\* with a Project attached; the tree building completed
C20_Witness ==
    /\ tpc = "done"
    /\ err = "none"
    /\ \E i \in DOMAIN groups :
          /\ groups[i].parent_id = groups[i].id
          /\ \E j \in DOMAIN projects : projects[j].namespace_id = groups[i].id
    /\ \E i \in DOMAIN trees : trees[i].class = "GroupNode" /\ trees[i].children # <<>>

(***************************************************************************)
(* The orchestrator operations (gitlab.py 288-355, 371-408): one call      *)
(* hands a task per project to a ThreadPoolExecutor through                *)
(* loop.run_in_executor and waits on asyncio.gather of the futures.        *)
(***************************************************************************)
Tasks == 1..NumProjects

\* Project.remote before an alias is assigned (line 40: remote = '')
Empty == 0

\* The Project dataclass (lines 21-40) with the fields the orchestrator reads;
\* names, paths and aliases are numbers
ProjectWith(id, name, path, remote) ==
    [class |-> "Project", id |-> id, name |-> name, path |-> path, remote |-> remote]

Range(seq) == {seq[i] : i \in DOMAIN seq}

Running(p) == task[p] \in {"begin", "wait1", "wait2"}
Over(p) == task[p] \in {"finished", "raised"}

Positions(projs) == [i \in 1..Len(projs) |-> i]

\* lines 308-311 with "prj.name in exceptions" in place of "prj.name not in
\* exceptions"
TaskSetInverted(projs, exc) ==
    IF exc # {}
      THEN SelectSeq(Positions(projs), LAMBDA i : projs[i].name \in exc)
      ELSE Positions(projs)

\* lines 308-311: the call's list of projects: self.projects, or with a
\* non-empty exception list a new list of those whose name is not in it
TaskSet(projs, exc) ==
    IF exc # {}
      THEN SelectSeq(Positions(projs), LAMBDA i : projs[i].name \notin exc)
      ELSE Positions(projs)

\* lines 305-311, 346-347, 392-400: the call creates its loop and its pool and
\* settles the projects it will dispatch.  With none to dispatch the loop over
\* them is empty and line 318 raises at once: asyncio.gather() of no future
\* gives a future of another event loop, which run_until_complete refuses with
\* ValueError.
StartCall(o, targets) ==
    /\ caller = "idle"
    /\ op' = o
    /\ todo' = targets
    /\ caller' = IF targets = <<>> THEN "raised" ELSE "dispatching"
    /\ next_submit' = 1
    /\ UNCHANGED <<username, folder, task, failure, printed, first_raised,
                   exceptions, uuids, remote_added, remote_pushed>>
    /\ UNCHANGED <<fetchVars, treeVars, mainVars, copyVars>>

mirror_all_projects == StartCall("mirror", TaskSet(projects, exceptions))
upload_all_projects == StartCall("upload", Positions(projects))
relink_references == StartCall("relink", Positions(projects))

\* lines 314-316, 350-352, 403-405: run_in_executor submits the task of the next
\* project to the pool at once; after the last one the caller waits on gather.
Submit ==
    /\ caller = "dispatching"
    /\ task' = [task EXCEPT ![todo[next_submit]] = "queued"]
    /\ next_submit' = next_submit + 1
    /\ caller' = IF next_submit = Len(todo) THEN "waiting" ELSE "dispatching"
    /\ UNCHANGED <<op, username, folder, failure, printed, first_raised,
                   exceptions, todo, uuids, remote_added, remote_pushed>>
    /\ UNCHANGED <<fetchVars, treeVars, mainVars, copyVars>>

\* A free thread of the pool takes the oldest queued task (the tasks are
\* submitted in the order of self.projects).
WorkerTake(p) ==
    /\ task[p] = "queued"
    /\ \A q \in Tasks : task[q] = "queued" => p <= q
    /\ Cardinality({q \in Tasks : Running(q)}) < MaxWorkers
    /\ task' = [task EXCEPT ![p] = "begin"]
    /\ UNCHANGED <<op, username, folder, caller, next_submit, failure, printed,
                   first_raised, exceptions, todo, uuids, remote_added,
                   remote_pushed>>
    /\ UNCHANGED <<fetchVars, treeVars, mainVars, copyVars>>

\* The task of p ends with an error raised inside it (Popen or the unpacking of
\* web_url.split raises): its future holds the error.
Raise(p) ==
    /\ task' = [task EXCEPT ![p] = "raised"]
    /\ failure' = [failure EXCEPT ![p] = "raised"]
    /\ first_raised' = IF first_raised = 0 THEN p ELSE first_raised
    /\ printed' = printed

\* process.wait() returns: the exit code is dropped
Exit(p, code) ==
    failure' = [failure EXCEPT ![p] =
                   IF code # 0 /\ @ = "none" THEN "nonzero_exit" ELSE @]

\* lines 332-333 with "project.remote = str(uuid.uuid4())" run on every upload
NewRemoteAlways(remote, fresh) == fresh

\* lines 332-333: "if not project.remote: project.remote = str(uuid.uuid4())"
NewRemote(remote, fresh) == IF remote = Empty THEN fresh ELSE remote

\* upload_project 332-333: the alias of the project, a fresh identifier when it
\* has none (uuid4 gives a value no earlier call gave); the other operations
\* leave the Project alone.
AssignRemote(p) ==
    IF op = "upload"
      THEN /\ projects' = [projects EXCEPT ![p].remote = NewRemote(@, uuids + 1)]
           /\ uuids' = IF projects'[p].remote # projects[p].remote
                         THEN uuids + 1 ELSE uuids
      ELSE UNCHANGED <<projects, uuids>>

\* mirror_project 289-301, upload_project 322-338, _relink_project 372-384: the
\* checks of the username and (upload, relink) of the folder, which print a
\* message and return, then (upload) the alias, then the first external command
\* is started: the clone, "git remote add <alias>" or the history rewrite.
TaskBegin(p) ==
    /\ task[p] = "begin"
    /\ IF ~username
         THEN /\ task' = [task EXCEPT ![p] = "finished"]
              /\ failure' = [failure EXCEPT ![p] = "no_username"]
              /\ printed' = printed \cup {p}
              /\ UNCHANGED <<first_raised, projects, uuids, remote_added>>
         ELSE IF op \in {"upload", "relink"} /\ ~folder[p]
         THEN /\ task' = [task EXCEPT ![p] = "finished"]
              /\ failure' = [failure EXCEPT ![p] = "no_folder"]
              /\ printed' = printed \cup {p}
              /\ UNCHANGED <<first_raised, projects, uuids, remote_added>>
         ELSE /\ AssignRemote(p)
              /\ \/ /\ Raise(p)
                    /\ remote_added' = remote_added
                 \/ /\ task' = [task EXCEPT ![p] = "wait1"]
                    /\ remote_added' =
                          [remote_added EXCEPT ![p] =
                              IF op = "upload" THEN projects'[p].remote ELSE @]
                    /\ UNCHANGED <<failure, printed, first_raised>>
    /\ UNCHANGED <<op, username, folder, caller, next_submit, exceptions, todo,
                   remote_pushed>>
    /\ UNCHANGED <<fetchVars, treeRest, mainVars, copyVars>>

\* mirror_project 302: the clone exits and the task returns.
\* upload_project 339-342, _relink_project 385-388: the first command exits and
\* the second one is started, whatever the exit code: "git push <alias>
\* --mirror" or the force push.
FirstExit(p) ==
    /\ task[p] = "wait1"
    /\ \E code \in {0, 1} :
          IF op = "mirror"
            THEN /\ Exit(p, code)
                 /\ task' = [task EXCEPT ![p] = "finished"]
                 /\ UNCHANGED <<printed, first_raised, remote_pushed>>
            ELSE \/ /\ Raise(p)
                    /\ remote_pushed' = remote_pushed
                 \/ /\ Exit(p, code)
                    /\ task' = [task EXCEPT ![p] = "wait2"]
                    /\ remote_pushed' =
                          [remote_pushed EXCEPT ![p] =
                              IF op = "upload" THEN projects[p].remote ELSE @]
                    /\ UNCHANGED <<printed, first_raised>>
    /\ UNCHANGED <<op, username, folder, caller, next_submit, exceptions, todo,
                   uuids, remote_added>>
    /\ UNCHANGED <<fetchVars, treeVars, mainVars, copyVars>>

\* upload_project 343, _relink_project 389: the push exits and the task returns.
SecondExit(p) ==
    /\ task[p] = "wait2"
    /\ \E code \in {0, 1} : Exit(p, code)
    /\ task' = [task EXCEPT ![p] = "finished"]
    /\ UNCHANGED <<op, username, folder, caller, next_submit, printed, first_raised,
                   exceptions, todo, uuids, remote_added, remote_pushed>>
    /\ UNCHANGED <<fetchVars, treeVars, mainVars, copyVars>>

\* lines 318-319: every future completed without an error: gather completes,
\* the loop is closed and the call returns.
JoinReturn ==
    /\ caller = "waiting"
    /\ \A p \in Range(todo) : task[p] = "finished"
    /\ caller' = "returned"
    /\ UNCHANGED <<op, username, folder, next_submit, task, failure, printed,
                   first_raised, exceptions, todo, uuids, remote_added,
                   remote_pushed>>
    /\ UNCHANGED <<fetchVars, treeVars, mainVars, copyVars>>

\* line 318 with "cancel what is still queued" in place of gather's "leave the
\* other futures alone"
JoinRaiseCancelling ==
    /\ caller = "waiting"
    /\ first_raised # 0
    /\ caller' = "raised"
    /\ task' = [p \in Tasks |-> IF task[p] = "queued" THEN "cancelled" ELSE task[p]]
    /\ UNCHANGED <<op, username, folder, next_submit, failure, printed, first_raised,
                   exceptions, todo, uuids, remote_added, remote_pushed>>
    /\ UNCHANGED <<fetchVars, treeVars, mainVars, copyVars>>

\* line 318: a future completed with an error: gather (return_exceptions=False)
\* hands the first error to run_until_complete at once, which raises it in the
\* caller; the other futures are neither awaited nor cancelled, and the pool is
\* not shut down.
JoinRaise ==
    /\ caller = "waiting"
    /\ first_raised # 0
    /\ caller' = "raised"
    /\ UNCHANGED <<op, username, folder, next_submit, task, failure, printed,
                   first_raised, exceptions, todo, uuids, remote_added,
                   remote_pushed>>
    /\ UNCHANGED <<fetchVars, treeVars, mainVars, copyVars>>

\* Before a call: nothing dispatched, no command run
CallIdle ==
    /\ op = "none"
    /\ caller = "idle"
    /\ next_submit = 0
    /\ task = [p \in Tasks |-> "none"]
    /\ failure = [p \in Tasks |-> "none"]
    /\ printed = {}
    /\ first_raised = 0
    /\ todo = <<>>
    /\ remote_added = [p \in Tasks |-> Empty]
    /\ remote_pushed = [p \in Tasks |-> Empty]
    /\ FetchIdle /\ TreeRestIdle /\ MainIdle /\ CopyIdle

\* Projects with distinct names and paths and no alias yet, no exception list
OrchInit ==
    /\ username \in BOOLEAN
    /\ folder \in [Tasks -> BOOLEAN]
    /\ projects = [p \in Tasks |-> ProjectWith(p, p, p, Empty)]
    /\ exceptions = {}
    /\ uuids = 0
    /\ CallIdle

OrchNext ==
    \/ mirror_all_projects
    \/ upload_all_projects
    \/ relink_references
    \/ Submit
    \/ \E p \in Tasks : WorkerTake(p)
    \/ \E p \in Tasks : TaskBegin(p)
    \/ \E p \in Tasks : FirstExit(p)
    \/ \E p \in Tasks : SecondExit(p)
    \/ JoinReturn
    \/ JoinRaise

SpecOrch == OrchInit /\ [][OrchNext]_vars

\* The threads of the pool run, the external commands exit, and the caller's
\* loop over the projects goes on: the pool's threads take queued tasks until
\* the queue is empty, also after the caller got an error.
OrchFairness ==
    /\ WF_vars(Submit)
    /\ \A p \in Tasks : WF_vars(WorkerTake(p))
    /\ \A p \in Tasks : WF_vars(TaskBegin(p))
    /\ \A p \in Tasks : WF_vars(FirstExit(p))
    /\ \A p \in Tasks : WF_vars(SecondExit(p))

FairSpecOrch == SpecOrch /\ OrchFairness

Failed(p) == failure[p] # "none"

\* The failures the call reported: the messages printed by the tasks, and the
\* one error the caller was handed.
Reported == printed \cup (IF caller = "raised" THEN {first_raised} ELSE {})

\* C6: join barrier. The call gives control back to its caller, by return or by
\* raised error, only when every task it dispatched has finished.
C6_JoinBarrier ==
    caller \in {"returned", "raised"} => \A p \in Tasks : task[p] # "none" => Over(p)

\* C7: failure isolation. Whatever happens to the other tasks of the call, every
\* project's task is dispatched, none is cancelled, and each one runs to its end.
C7_FailureIsolation ==
    /\ [](caller \in {"waiting", "returned", "raised"}
            => \A p \in Tasks : task[p] \notin {"none", "cancelled"})
    /\ (caller = "dispatching") ~> (\A p \in Tasks : Over(p))

\* C7 witness: the first task raised, the caller got the error, and the second
\* task, still queued at that time, ran to its end afterwards
C7_Witness ==
    /\ caller = "raised"
    /\ first_raised = 1
    /\ task[2] = "finished"
    /\ failure[2] = "none"

\* C8: failure reporting. After a call that returned, the failures reported are
\* those of the tasks that failed, one each: in particular a task whose external
\* command exited non-zero is among the reported ones.
C8_FailuresReported ==
    caller = "returned" => Reported = {p \in Tasks : Failed(p)}

(***************************************************************************)
(* mirror_all_projects with an exception list (gitlab.py 304-319).         *)
(***************************************************************************)
\* Names of projects and of exceptions: as many as projects, so that the names
\* can be distinct
Names == 1..NumProjects

\* Projects with any names, two of them possibly with the same one (projects
\* of different groups), and any exception list
ExclInit ==
    /\ username = TRUE
    /\ folder = [p \in Tasks |-> TRUE]
    /\ \E nm \in [Tasks -> Names] :
          projects = [p \in Tasks |-> ProjectWith(p, nm[p], p, Empty)]
    /\ exceptions \in SUBSET Names
    /\ uuids = 0
    /\ CallIdle

ExclNext ==
    \/ mirror_all_projects
    \/ Submit
    \/ \E p \in Tasks : WorkerTake(p)
    \/ \E p \in Tasks : TaskBegin(p)
    \/ \E p \in Tasks : FirstExit(p)
    \/ JoinReturn
    \/ JoinRaise

SpecExcl == ExclInit /\ [][ExclNext]_vars

Excepted(p) == projects[p].name \in exceptions

\* C13: exclusion. In a call of mirror_all_projects with a non-empty exception
\* list the list of projects to dispatch, settled before any task is handed to
\* the pool, holds every project whose name is not in the exception list once
\* and no project whose name is in it; a project whose name is in it never has
\* a task, every other one has its task once the dispatch is over; and no step
\* of the call changes self.projects.
C13_Exclusion ==
    /\ []((op = "mirror" /\ exceptions # {}) =>
            \A p \in Tasks :
               /\ Count(todo, p) = IF Excepted(p) THEN 0 ELSE 1
               /\ Excepted(p) => task[p] = "none"
               /\ (caller \in {"waiting", "returned"} /\ ~Excepted(p))
                     => task[p] # "none")
    /\ [][projects' = projects]_vars

\* C13 witness: the first of three projects is excepted, the call returned and
\* exactly the two others were cloned
C13_Witness ==
    /\ op = "mirror" /\ caller = "returned"
    /\ exceptions = {projects[1].name}
    /\ task = <<"none", "finished", "finished">>
    /\ failure = [p \in Tasks |-> "none"]

(***************************************************************************)
(* The workspace directories of the tasks.                                 *)
(***************************************************************************)
\* The directory <x>.git under temp_path that the commands of the task of p
\* work in: "git clone --mirror <web_url>.git" with cwd temp_path (lines
\* 300-301) writes <last component of web_url>.git, the project's path;
\* upload_project works in <project.path>.git (line 326); _relink_project in
\* <project.name>.git (line 376).
WorkDir(p) == IF op = "relink" THEN projects[p].name ELSE projects[p].path

\* Projects with any paths, two of them possibly with the same one (projects
\* of different groups); the name of a project is its path.  The folder of the
\* path exists for all projects of that path or for none.
WorkInit ==
    /\ username \in BOOLEAN
    /\ \E pth \in [Tasks -> Names] :
          /\ projects = [p \in Tasks |-> ProjectWith(p, pth[p], pth[p], Empty)]
          /\ folder \in {f \in [Tasks -> BOOLEAN] :
                           \A p, q \in Tasks : pth[p] = pth[q] => f[p] = f[q]}
    /\ exceptions = {}
    /\ uuids = 0
    /\ CallIdle

SpecWork == WorkInit /\ [][OrchNext]_vars

\* An external command of the task of p is running
CommandRunning(p) == task[p] \in {"wait1", "wait2"}

\* C15: workspace partitioning. During a call no two tasks have a command
\* running in the same workspace directory at the same time, whatever the
\* paths of the projects (projects of different groups with the same path
\* included).
C15_WorkspacePartitioned ==
    \A p, q \in Tasks :
       (p # q /\ CommandRunning(p) /\ CommandRunning(q)) => WorkDir(p) # WorkDir(q)

(***************************************************************************)
(* upload_all_projects and the remote alias (gitlab.py 321-355).           *)
(***************************************************************************)
\* The position of p among the members of S, ascending
Rank(S, p) == Cardinality({q \in S : q <= p})

\* Projects some of which hold the alias an earlier call of upload_project gave
\* them: the aliases 1..uuids, one each.
UploadInit ==
    /\ username = TRUE
    /\ folder \in [Tasks -> BOOLEAN]
    /\ \E S \in SUBSET Tasks :
          /\ projects = [p \in Tasks |->
                           ProjectWith(p, p, p, IF p \in S THEN Rank(S, p) ELSE Empty)]
          /\ uuids = Cardinality(S)
    /\ exceptions = {}
    /\ CallIdle

UploadNext ==
    \/ upload_all_projects
    \/ Submit
    \/ \E p \in Tasks : WorkerTake(p)
    \/ \E p \in Tasks : TaskBegin(p)
    \/ \E p \in Tasks : FirstExit(p)
    \/ \E p \in Tasks : SecondExit(p)
    \/ JoinReturn
    \/ JoinRaise

SpecUpload == UploadInit /\ [][UploadNext]_vars

\* C14: remote alias. No step changes the alias of a Project that has one,
\* whether it got it in this call or in an earlier one; the alias given to
\* "git remote add" and the one given to "git push" are the alias the Project
\* holds; and no two Projects hold the same alias.
C14_RemoteAlias ==
    /\ [][\A p \in Tasks :
             projects[p].remote # Empty => projects'[p].remote = projects[p].remote]_vars
    /\ [](\A p \in Tasks :
             /\ remote_added[p] # Empty => remote_added[p] = projects[p].remote
             /\ remote_pushed[p] # Empty => remote_pushed[p] = remote_added[p])
    /\ [](\A p, q \in Tasks :
             (p # q /\ projects[p].remote # Empty)
                => projects[p].remote # projects[q].remote)

\* C14 witness: the first project held an alias before the call and was pushed
\* under it; the second one got its alias in the call and was pushed under it
C14_Witness ==
    /\ caller = "returned"
    /\ uuids = 2
    /\ remote_pushed[1] = 1 /\ projects[1].remote = 1
    /\ remote_pushed[2] = 2 /\ projects[2].remote = 2

(***************************************************************************)
(* main() (main.py 19-45): the phases over the repositories of the source. *)
(* A phase is one orchestrator call; its tasks end as "ok" (the commands    *)
(* exited 0), "nonzero" (a command exited non-zero) or "raise" (an error    *)
(* was raised in the task).  The tasks of a call all run to their end       *)
(* (C7); a raised error reaches main() through the call and ends it.        *)
(***************************************************************************)
Repos == 1..NumRepos

Outcomes == [Repos -> {"ok", "nonzero", "raise"}]

\* The step of main() after a call whose tasks T ended as o
AfterCall(T, o, next) == IF \E r \in T : o[r] = "raise" THEN "aborted" ELSE next

FailedIn(T, o) == [r \in Repos |-> own_failed[r] \/ (r \in T /\ o[r] # "ok")]

\* main.py 24-29: copy_tree over the source trees, then the refetch of the
\* destination: a repository is replicated when its project was created.
replicate ==
    /\ mpc = "copy_tree"
    /\ \E created \in [Repos -> BOOLEAN] :
          /\ replicated' = created
          /\ own_failed' = [r \in Repos |-> ~created[r]]
    /\ mpc' = "mirror_src"
    /\ UNCHANGED <<src_username, dst_username, excluded, name_is_path, workspace,
                   cloned, push_ran, pushed, relink_ran, relinked>>
    /\ UNCHANGED <<fetchVars, treeVars, orchVars, copyVars>>

\* main.py 32: src_gitlab.mirror_all_projects(SRC_REPO_EXCEPTIONS): a clone
\* task for every project of the source that is not excluded; a task returns
\* at once when the username is empty.
src_mirror_all_projects ==
    /\ mpc = "mirror_src"
    /\ \E o \in Outcomes :
          LET T == IF src_username THEN {r \in Repos : ~excluded[r]} ELSE {}
          IN  /\ \A r \in Repos \ T : o[r] = "ok"
              /\ cloned' = [r \in Repos |-> r \in T /\ o[r] = "ok"]
              /\ workspace' = [r \in Repos |->
                                 IF r \in T /\ o[r] = "ok" THEN "src_clone"
                                                            ELSE workspace[r]]
              /\ own_failed' = FailedIn(T, o)
              /\ mpc' = AfterCall(T, o, "upload")
    /\ UNCHANGED <<src_username, dst_username, excluded, name_is_path, replicated,
                   push_ran, pushed, relink_ran, relinked>>
    /\ UNCHANGED <<fetchVars, treeVars, orchVars, copyVars>>

\* main.py 33: dst_gitlab.upload_all_projects(): a task for every project of
\* the destination; it runs its commands when the username is set and
\* temp/<path>.git exists.
upload_all ==
    /\ mpc = "upload"
    /\ \E o \in Outcomes :
          LET T == IF dst_username
                     THEN {r \in Repos : replicated[r] /\ workspace[r] # "absent"}
                     ELSE {}
          IN  /\ \A r \in Repos \ T : o[r] = "ok"
              /\ push_ran' = [r \in Repos |-> r \in T]
              /\ pushed' = [r \in Repos |-> r \in T /\ o[r] = "ok"]
              /\ own_failed' = FailedIn(T, o)
              /\ mpc' = AfterCall(T, o, "clean")
    /\ UNCHANGED <<src_username, dst_username, excluded, name_is_path, replicated,
                   workspace, cloned, relink_ran, relinked>>
    /\ UNCHANGED <<fetchVars, treeVars, orchVars, copyVars>>

\* main.py 36, 45: dst_gitlab.clean_temp_folder()
clean_temp_folder ==
    /\ mpc \in {"clean", "clean_end"}
    /\ workspace' = [r \in Repos |-> "absent"]
    /\ mpc' = IF mpc = "clean" THEN "mirror_dst" ELSE "done"
    /\ UNCHANGED <<src_username, dst_username, excluded, name_is_path, replicated,
                   cloned, push_ran, pushed, relink_ran, relinked, own_failed>>
    /\ UNCHANGED <<fetchVars, treeVars, orchVars, copyVars>>

\* main.py 39: dst_gitlab.mirror_all_projects(SRC_REPO_EXCEPTIONS): a clone
\* task for every project of the destination that is not excluded, pushed or not.
dst_mirror_all_projects ==
    /\ mpc = "mirror_dst"
    /\ \E o \in Outcomes :
          LET T == IF dst_username
                     THEN {r \in Repos : replicated[r] /\ ~excluded[r]}
                     ELSE {}
          IN  /\ \A r \in Repos \ T : o[r] = "ok"
              /\ workspace' = [r \in Repos |->
                                 IF r \in T /\ o[r] = "ok" THEN "dst_clone"
                                                            ELSE workspace[r]]
              /\ own_failed' = FailedIn(T, o)
              /\ mpc' = AfterCall(T, o, "relink")
    /\ UNCHANGED <<src_username, dst_username, excluded, name_is_path, replicated,
                   cloned, push_ran, pushed, relink_ran, relinked>>
    /\ UNCHANGED <<fetchVars, treeVars, orchVars, copyVars>>

\* main.py 42: dst_gitlab.relink_references(SOURCE_URL, group): a task for every
\* project of the destination; it runs its commands when the username is set
\* and temp/<name>.git exists, which is the clone of the project when its name
\* is its path.
relink_all ==
    /\ mpc = "relink"
    /\ \E o \in Outcomes :
          LET T == IF dst_username
                     THEN {r \in Repos : /\ replicated[r]
                                         /\ name_is_path[r]
                                         /\ workspace[r] # "absent"}
                     ELSE {}
          IN  /\ \A r \in Repos \ T : o[r] = "ok"
              /\ relink_ran' = [r \in Repos |-> r \in T]
              /\ relinked' = [r \in Repos |-> r \in T /\ o[r] = "ok"]
              /\ own_failed' = FailedIn(T, o)
              /\ mpc' = AfterCall(T, o, "clean_end")
    /\ UNCHANGED <<src_username, dst_username, excluded, name_is_path, replicated,
                   workspace, cloned, push_ran, pushed>>
    /\ UNCHANGED <<fetchVars, treeVars, orchVars, copyVars>>

MainInit ==
    /\ mpc = "copy_tree"
    /\ src_username \in BOOLEAN
    /\ dst_username \in BOOLEAN
    /\ excluded \in [Repos -> BOOLEAN]
    /\ name_is_path \in [Repos -> BOOLEAN]
    /\ replicated = [r \in Repos |-> FALSE]
    /\ workspace = [r \in Repos |-> "absent"]
    /\ cloned = [r \in Repos |-> FALSE]
    /\ push_ran = [r \in Repos |-> FALSE]
    /\ pushed = [r \in Repos |-> FALSE]
    /\ relink_ran = [r \in Repos |-> FALSE]
    /\ relinked = [r \in Repos |-> FALSE]
    /\ own_failed = [r \in Repos |-> FALSE]
    /\ FetchIdle /\ TreeIdle /\ OrchIdle /\ CopyIdle

MainNext ==
    \/ replicate
    \/ src_mirror_all_projects
    \/ upload_all
    \/ clean_temp_folder
    \/ dst_mirror_all_projects
    \/ relink_all

SpecMain == MainInit /\ [][MainNext]_vars

\* C9: independent progress across phases. When main() is over, every repository
\* that is not excluded and none of whose own operations failed has reached the
\* relinked stage, whatever happened to the other repositories.
C9_IndependentProgress ==
    (mpc \in {"done", "aborted"} /\ src_username /\ dst_username)
       => \A r \in Repos : (~excluded[r] /\ ~own_failed[r]) => relinked[r]

\* C10: per-repository stage order. The push is executed only for a repository
\* with a local clone, and the relink (history rewrite plus force push) only
\* for a repository whose push succeeded.
C10_StageOrder ==
    \A r \in Repos :
       /\ push_ran[r] => cloned[r]
       /\ relink_ran[r] => pushed[r]

\* C16: the relink covers every transferred project. With a username set, once
\* relink_references has returned, the rewrite and the force push were run for
\* every project whose mirror clone is in the workspace at temp/<path>.git,
\* whether or not the project's name is its path.
C16_RelinkCoversClones ==
    (mpc = "clean_end" /\ dst_username)
       => \A r \in Repos : workspace[r] = "dst_clone" => relink_ran[r]

(***************************************************************************)
(* copy_tree, create_group, create_project (gitlab.py 133-156, 205-230,    *)
(* 264-286) as main() runs them over the trees of the source (main.py      *)
(* 24-26).  The names of the source Groups are their ids; the Group "test" *)
(* of the destination has the name 0.                                      *)
(***************************************************************************)
\* line 265: parent_id when copy_tree is given no parent_group
NoParent == -1

NamedGroup(id, parent_id, name) ==
    [class |-> "Group", id |-> id, parent_id |-> parent_id, name |-> name]
NamedProject(id, namespace_id, name) ==
    [class |-> "Project", id |-> id, namespace_id |-> namespace_id, name |-> name]

\* What is left to do: a call copy_tree(tree, parent_group), and the body of the
\* loop of line 279 for a Project child of the GroupNode of owner, with the
\* root_group of that call (Null: None)
TreeFrame(tree, parent_group) ==
    [kind |-> "tree", entry |-> tree, group |-> parent_group]
ProjectFrame(child, root_group, owner) ==
    [kind |-> "project", entry |-> child, group |-> root_group, owner |-> owner]

\* A POST request: what it is to create, the parent_id / namespace_id it
\* carries (NoParent: none) and the status of the answer
Request(class, id, parent_id, status) ==
    [key |-> <<class, id>>, parent_id |-> parent_id, status |-> status]

\* lines 151-154, 225-228 with the append done whatever the status
CreatedAlways(collection, status, entity) == Append(collection, entity)

\* lines 151-154, 225-228: the collection after a creation request: the entity
\* of the answer is appended when the status is 201
Created(collection, status, entity) ==
    IF status = 201 THEN Append(collection, entity) ELSE collection

\* create_group(name, parent_id=parent_id) for the source Group src, answered
\* with status; the server gives a created Group the next id and the parent
\* the request names
create_group(src, name, parent_id, status) ==
    LET group == NamedGroup(next_dst_id,
                            IF parent_id >= 0 THEN parent_id ELSE Null, name)
    IN  /\ creation_requests' =
              Append(creation_requests, Request("Group", src, parent_id, status))
        /\ groups' = Created(groups, status, group)
        /\ returned' = IF status = 201 THEN <<group>> ELSE <<>>
        /\ next_dst_id' = IF status = 201 THEN next_dst_id + 1 ELSE next_dst_id
        /\ UNCHANGED <<projects, trees>>

\* create_project(name, parent_id=parent_id) for the source Project src
create_project(src, name, parent_id, status) ==
    LET project == NamedProject(next_dst_id,
                                IF parent_id >= 0 THEN parent_id ELSE Null, name)
    IN  /\ creation_requests' =
              Append(creation_requests, Request("Project", src, parent_id, status))
        /\ projects' = Created(projects, status, project)
        /\ returned' = IF status = 201 THEN <<project>> ELSE <<>>
        /\ next_dst_id' = IF status = 201 THEN next_dst_id + 1 ELSE next_dst_id
        /\ UNCHANGED <<groups, trees>>

\* lines 274-277: the known Groups of the name of the tree's Group, after the
\* creation request
Fallback(grps, name) == SelectSeq(grps, LAMBDA group : group.name = name)

\* line 283 with no parent_id given to create_project
NamespaceOfNone(root_group) == NoParent

\* line 283: parent_id=root_group.id (a Group is referred to by its id)
NamespaceOf(root_group) == root_group

\* lines 279-286: the loop over tree.children, in order
ChildFrames(tree, root_group) ==
    [i \in DOMAIN tree.children |->
        IF tree.children[i].class = "Project"
          THEN ProjectFrame(tree.children[i], root_group, tree.item.id)
          ELSE TreeFrame(tree.children[i], root_group)]

\* copy_tree(tree, parent_group), lines 265-278 and the start of its loop: the
\* creation request for the Group of the tree, the search of the known Groups
\* when create_group returned None, then the children of the tree are next, in
\* order, with root_group, which is None when the search found nothing.  A
\* tree that is no GroupNode is left alone.
copy_tree ==
    /\ cpc = "walking"
    /\ Head(stack).kind = "tree"
    /\ LET tree == Head(stack).entry
           parent_group == Head(stack).group
           parent_id == IF parent_group # Null THEN parent_group ELSE NoParent
       IN  IF tree.class = "GroupNode"
             THEN \E status \in {201, 400} :
                     /\ create_group(tree.item.id, tree.item.name, parent_id, status)
                     /\ LET filtered_res == Fallback(groups, tree.item.name)
                            root_group ==
                               IF status = 201 THEN returned'[1].id
                               ELSE IF filtered_res # <<>> THEN filtered_res[1].id
                               ELSE Null
                        IN  /\ attempt' =
                                  (tree.item.id :> [status |-> status,
                                                    root_group |-> root_group])
                                  @@ attempt
                            /\ stack' = ChildFrames(tree, root_group) \o Tail(stack)
             ELSE /\ stack' = Tail(stack)
                  /\ UNCHANGED <<creation_requests, attempt, returned, next_dst_id,
                                 groups, projects, trees>>
    /\ cpc' = IF stack' = <<>> THEN "done" ELSE "walking"
    /\ UNCHANGED <<src_trees, copy_err, raised_at>>
    /\ UNCHANGED <<srv_groups, srv_projects, err, tpc, perm_groups, perm_projects,
                   perm_trees, perm_err>>
    /\ UNCHANGED <<fetchVars, orchVars, mainVars>>

\* lines 280-283, the body of the loop for a Project child: root_group.id raises
\* AttributeError when root_group is None, and the error leaves every copy_tree
\* call on the way up and the loop of main(); otherwise the creation request
\* for the Project.
copy_child_project ==
    /\ cpc = "walking"
    /\ Head(stack).kind = "project"
    /\ LET child == Head(stack).entry
           root_group == Head(stack).group
       IN  IF root_group = Null
             THEN /\ copy_err' = "AttributeError"
                  /\ raised_at' = Head(stack).owner
                  /\ cpc' = "raised"
                  /\ UNCHANGED <<stack, creation_requests, returned, next_dst_id,
                                 groups, projects, trees>>
             ELSE /\ \E status \in {201, 400} :
                        create_project(child.id, child.name, NamespaceOf(root_group),
                                       status)
                  /\ stack' = Tail(stack)
                  /\ cpc' = IF stack' = <<>> THEN "done" ELSE "walking"
                  /\ UNCHANGED <<copy_err, raised_at>>
    /\ UNCHANGED <<src_trees, attempt>>
    /\ UNCHANGED <<srv_groups, srv_projects, err, tpc, perm_groups, perm_projects,
                   perm_trees, perm_err>>
    /\ UNCHANGED <<fetchVars, orchVars, mainVars>>

\* The Group "test" of the destination, and the Group of the name k that the
\* destination knows before the copy
TestId == MaxSrcGroups + 1
KnownId(k) == TestId + k

\* main.py 20-26: the source holds MaxSrcGroups Groups, each a root or the
\* child of one before it, and MaxSrcProjects Projects, each in one of the
\* Groups; the destination knows the Group "test" and, below it, Groups of
\* some of the names of the source, and has built its forest; copy_tree is
\* called for every tree of the source with the Group "test" or with no
\* parent_group.
CopyInit ==
    /\ \E gp \in {f \in [1..MaxSrcGroups -> 0..MaxSrcGroups] :
                     \A i \in 1..MaxSrcGroups : f[i] < i},
          pn \in [1..MaxSrcProjects -> 1..MaxSrcGroups],
          parent_group \in {Null, TestId} :
          /\ src_trees =
                BuildForest(<<>>,
                            [i \in 1..MaxSrcGroups |-> NamedGroup(i, gp[i], i)],
                            [j \in 1..MaxSrcProjects |-> NamedProject(j, pn[j], j)]).trees
          /\ stack = [i \in DOMAIN src_trees |-> TreeFrame(src_trees[i], parent_group)]
    /\ \E known \in SUBSET (1..MaxSrcGroups) :
          groups = <<NamedGroup(TestId, Null, 0)>>
                   \o [i \in 1..Cardinality(known) |->
                          LET k == Ascending(known, MaxSrcGroups)[i]
                          IN  NamedGroup(KnownId(k), TestId, k)]
    /\ projects = <<>>
    /\ trees = BuildForest(<<>>, groups, projects).trees
    /\ cpc = "walking"
    /\ creation_requests = <<>>
    /\ attempt = <<>>
    /\ copy_err = "none"
    /\ raised_at = 0
    /\ returned = <<>>
    /\ next_dst_id = KnownId(MaxSrcGroups) + 1
    /\ srv_groups = <<>> /\ srv_projects = <<>>
    /\ err = "none" /\ tpc = "done"
    /\ perm_groups = <<>> /\ perm_projects = <<>>
    /\ perm_trees = <<>> /\ perm_err = "none"
    /\ FetchIdle /\ OrchIdle /\ MainIdle

CopyNext == copy_tree \/ copy_child_project

SpecCopy == CopyInit /\ [][CopyNext]_vars

(***************************************************************************)
(* What a run of copy_tree did.                                            *)
(***************************************************************************)
SrcGroups == 1..MaxSrcGroups

\* <<g, key>>: the entity of key is a child of the GroupNode of the source Group g
SrcEdges == ForestEdges(src_trees)

\* The entity of key is below the GroupNode of the source Group g
RECURSIVE IsBelow(_, _)
IsBelow(key, g) ==
    \/ <<g, key>> \in SrcEdges
    \/ \E h \in SrcGroups : <<g, <<"Group", h>>>> \in SrcEdges /\ IsBelow(key, h)

\* The keys of the entities of the source
SrcKeys ==
    {<<"Group", ForestGroupIds(src_trees)[i]>> : i \in DOMAIN ForestGroupIds(src_trees)}
    \cup {<<"Project", ForestProjectIds(src_trees)[i]>> :
             i \in DOMAIN ForestProjectIds(src_trees)}

\* The creation of the source Group g was tried and left no root_group
NoRootGroup(g) == g \in DOMAIN attempt /\ attempt[g].root_group = Null

\* The creation of the source Group g was rejected and a known Group of its
\* name was taken instead
FellBack(g) ==
    g \in DOMAIN attempt /\ attempt[g].status # 201 /\ attempt[g].root_group # Null

\* A creation request was issued for the entity of key, carrying parent_id
RequestedUnder(key, parent_id) ==
    \E i \in DOMAIN creation_requests :
       creation_requests[i].key = key /\ creation_requests[i].parent_id = parent_id

Requested(key) == \E i \in DOMAIN creation_requests : creation_requests[i].key = key

\* C11: idempotent replication. When the creation of the Group of a source
\* GroupNode X is rejected and the destination knows a Group named X, the
\* copy_tree call for X takes that Group (the one known before the copy),
\* raises no error, and, once it is over, has issued for every child of X a
\* creation request that carries the id of that Group.
C11_IdempotentReplication ==
    \A g \in SrcGroups :
       FellBack(g) =>
          /\ attempt[g].root_group = KnownId(g)
          /\ copy_err = "none" \/ ~(raised_at = g \/ IsBelow(<<"Group", raised_at>>, g))
          /\ cpc # "walking" =>
                \A key \in SrcKeys :
                   <<g, key>> \in SrcEdges => RequestedUnder(key, attempt[g].root_group)

\* C12: subtree abort. When the creation of the Group of a GroupNode fails and
\* no known Group has its name, no creation request is issued for anything
\* below that node, no error is raised, and when the walk is over a creation
\* request was issued for every entity of the source that is not below such a
\* node.
C12_SubtreeAbort ==
    /\ copy_err = "none"
    /\ \A g \in SrcGroups, key \in SrcKeys :
          (NoRootGroup(g) /\ IsBelow(key, g)) => ~Requested(key)
    /\ cpc = "done" =>
          \A key \in SrcKeys :
             (~\E g \in SrcGroups : NoRootGroup(g) /\ IsBelow(key, g)) => Requested(key)

\* C17: pre-order replication. A creation request for a child of a GroupNode
\* comes after the creation request for the Group of that node, whose attempt
\* is then complete; and the request for a child Project carries the id of the
\* root_group of that node, a Group of the destination with the node's name
\* (created by the attempt or found among the known ones).
C17_PreOrder ==
    \A i \in DOMAIN creation_requests, g \in SrcGroups :
       <<g, creation_requests[i].key>> \in SrcEdges =>
          /\ \E j \in 1..(i - 1) : creation_requests[j].key = <<"Group", g>>
          /\ g \in DOMAIN attempt
          /\ creation_requests[i].key[1] = "Project" =>
                /\ creation_requests[i].parent_id = attempt[g].root_group
                /\ \E k \in DOMAIN groups :
                      /\ groups[k].id = attempt[g].root_group
                      /\ groups[k].name = g

\* C17 witness: the walk is over without error; a Project was requested below
\* a Group created in the walk, itself the child of a Group found among the
\* known ones
C17_Witness ==
    /\ cpc = "done" /\ copy_err = "none"
    /\ \E g, h \in SrcGroups, key \in SrcKeys :
          /\ FellBack(g)
          /\ <<g, <<"Group", h>>>> \in SrcEdges
          /\ h \in DOMAIN attempt /\ attempt[h].status = 201
          /\ key[1] = "Project" /\ <<h, key>> \in SrcEdges
          /\ RequestedUnder(key, attempt[h].root_group)

\* C19: creation side effects. A step that issues a creation request for a
\* Group appends the one returned Group, a new one, to self.groups when the
\* answer is 201, and otherwise returns None and leaves self.groups as it was;
\* it leaves self.projects and self.trees as they were.  The same holds for a
\* Project, with self.projects and self.groups exchanged.
C19_CreationEffects ==
    [][creation_requests' # creation_requests =>
          LET r == creation_requests'[Len(creation_requests')]
              OneNew(old, new) ==
                 IF r.status = 201
                   THEN /\ Len(returned') = 1
                        /\ new = Append(old, returned'[1])
                        /\ \A k \in DOMAIN old : old[k].id # returned'[1].id
                   ELSE returned' = <<>> /\ new = old
          IN  /\ trees' = trees
              /\ IF r.key[1] = "Group"
                   THEN OneNew(groups, groups') /\ projects' = projects
                   ELSE OneNew(projects, projects') /\ groups' = groups]_vars

\* C19 witness: a Group and a Project were created, a further request was
\* rejected, and the destination has its forest from before the copy
C19_Witness ==
    /\ trees # <<>>
    /\ projects # <<>>
    /\ \E i, j \in DOMAIN creation_requests :
          /\ creation_requests[i].key[1] = "Group" /\ creation_requests[i].status = 201
          /\ creation_requests[j].status # 201
    /\ returned = <<>>

====
